---- MODULE Spec2Model ----
(***************************************************************************)
(* Blog backend (Express + Mongoose): the credential service and the user  *)
(* routes, the JWT middleware and the startup sequence of index.js, and    *)
(* the post service with its listing pipeline.                             *)
(*                                                                         *)
(* The database is shared by the HTTP server and by direct callers of the  *)
(* services (the jest suites and their fixtures call createUser,           *)
(* deleteUser and createPost against the same store).                      *)
(***************************************************************************)
EXTENDS Integers, Sequences, FiniteSets, Bags, TLC

(* ------------------------------ bounds -------------------------------- *)
\* user documents created in one run
MaxUsers == 2
\* signup requests suspended between findByUserName and createUser
MaxInflight == 2
\* post documents created in one run
MaxPosts == 2
\* createPost calls suspended inside save()
MaxSaving == 2
\* ticks of the wall clock
MaxClock == 1
\* JWT_EXPIRES_IN, in clock ticks
JwtExpiresIn == 2

Usernames == {"alice", "bob"}
Emails == {"a@x.com", "b@x.com"}
Passwords == {"P@ss1", "wrong"}
Salts == {"salt1"}

\* JavaScript null / undefined, as a document
Null == [null |-> TRUE]
\* a field that is undefined
Undefined == "undefined"
\* no Authorization header
NoToken == [none |-> TRUE]
\* a bearer string that is no signed token
GarbageToken == [garbage |-> TRUE]

VARIABLES
    localStorage,   \* the browser's localStorage: auth_token and auth_user
    env,            \* process.env after the .env files are loaded
    boot,           \* position of index.js in its startup sequence
    requireAuthMw,  \* jwt.js: let _requireAuth
    users,          \* the users collection, in natural (insertion) order
    nextUserId,     \* next ObjectId of a user document
    signupQ,        \* bag of signup requests that passed the check, awaiting createUser
    posts,          \* the posts collection, in natural (insertion) order
    nextPostId,     \* next ObjectId of a post document
    saving,         \* post documents inside save(), not yet inserted, with their caller
    now,            \* wall clock
    resp,           \* the HTTP response sent last
    thrown          \* the error the last direct service call threw, if it threw

vars == <<localStorage, env, boot, requireAuthMw, users, nextUserId, signupQ, posts,
          nextPostId, saving, now, resp, thrown>>

(* ------------------------------ helpers ------------------------------- *)
\* s without its i-th element
RemoveAt(s, i) == [j \in 1..(Len(s) - 1) |-> IF j < i THEN s[j] ELSE s[j + 1]]

\* index of the first element of s satisfying Test, 0 if none
FirstIndex(s, Test(_)) ==
    IF \E i \in 1..Len(s) : Test(s[i])
    THEN CHOOSE i \in 1..Len(s) : Test(s[i]) /\ \A j \in 1..(i - 1) : ~Test(s[j])
    ELSE 0

\* a document without one of its fields (const { f, ...rest } = doc)
Without(doc, f) == [k \in DOMAIN doc \ {f} |-> doc[k]]

(* ------------------------------ bcrypt -------------------------------- *)
\* the digest is one-way and collision-free: one digest per (salt, password)
Digest(salt, password) == <<"$2b$10$", salt, password>>

\* bcrypt.hash(password, 10) with the salt it drew
bcryptHash(password, salt) == [salt |-> salt, digest |-> Digest(salt, password)]

\* bcrypt.compare(password, hash)
bcryptCompare(password, hash) == Digest(hash.salt, password) = hash.digest

(* --------------------------- user service ----------------------------- *)
\* User.findOne({ username }): the first match in natural order, or null
findByUserName(us, username) ==
    LET i == FirstIndex(us, LAMBDA u : u.username = username)
    IN  IF i = 0 THEN Null ELSE us[i]

\* User.findOne({ username }).select("_id"): the id, or 0 for null
findUserId(us, userName) ==
    LET userId == findByUserName(us, userName)
    IN  IF userId = Null THEN 0 ELSE userId.id

\* the document createUser saves
NewUser(id, username, email, password, salt) ==
    [id |-> id, username |-> username, email |-> email,
     passwordHash |-> bcryptHash(password, salt)]

\* user.save() on the User collection. The schema (db/models/user.js) is
\* taken from the documented data model: username carries no unique index,
\* so the insert succeeds whatever the collection holds.
userSave(us, user) == Append(us, user)

\* User.deleteOne({ username }): removes the first match
deleteUser(us, username) ==
    LET i == FirstIndex(us, LAMBDA u : u.username = username)
    IN  IF i = 0 THEN us ELSE RemoveAt(us, i)

\* jwt.sign(payload, secret, { expiresIn })
jwtSign(id, username, secret, t) ==
    [id |-> id, username |-> username, exp |-> t + JwtExpiresIn, sig |-> secret]

\* the two failure causes of loginUser share one message
InvalidLogin == [ok |-> FALSE, message |-> "Invalid username or password"]

\* loginUser telling an unknown username from a wrong password
loginUserNamesCause(us, e, t, userName, password) ==
    LET user == findByUserName(us, userName)
    IN  IF user = Null
        THEN [ok |-> FALSE, message |-> "User not found"]
        ELSE IF ~bcryptCompare(password, user.passwordHash)
        THEN InvalidLogin
        ELSE IF e.JWT_SECRET = ""
        THEN [ok |-> FALSE, threw |-> "secretOrPrivateKey must have a value"]
        ELSE [ok |-> TRUE,
              user |-> Without(user, "passwordHash"),
              token |-> jwtSign(user.id, user.username, e.JWT_SECRET, t)]

loginUser(us, e, t, userName, password) ==
    LET user == findByUserName(us, userName)
        isPasswordValid ==
            IF user = Null THEN FALSE ELSE bcryptCompare(password, user.passwordHash)
    IN  IF user = Null \/ ~isPasswordValid
        THEN InvalidLogin
        ELSE IF e.JWT_SECRET = ""
        THEN [ok |-> FALSE, threw |-> "secretOrPrivateKey must have a value"]
        ELSE [ok |-> TRUE,
              user |-> Without(user, "passwordHash"),
              token |-> jwtSign(user.id, user.username, e.JWT_SECRET, t)]

(* ------------------------------ startup ------------------------------- *)
Response(route, status, body) == [route |-> route, status |-> status, body |-> body]

NoResponse == Response("none", 0, Null)
NoError == [name |-> "none"]

Init ==
    /\ localStorage = [auth_token |-> Null, auth_user |-> Null]
    /\ env \in [JWT_SECRET : {"", "s3cret"}, DATABASE_URL : {"", "mongodb://db/blog"}]
    /\ boot = "start"
    /\ requireAuthMw = Null
    /\ users = <<>>
    /\ nextUserId = 1
    /\ signupQ = EmptyBag
    /\ posts = <<>>
    /\ nextPostId = 1
    /\ saving = {}
    /\ now = 0
    /\ resp = NoResponse
    /\ thrown = NoError

\* index.js: loadConfig()
LoadConfig ==
    /\ boot = "start"
    /\ boot' = "configured"
    /\ UNCHANGED <<localStorage, env, requireAuthMw, users, nextUserId, signupQ, posts,
                   nextPostId, saving, now, resp, thrown>>

\* index.js: await initDatabase(); the throw for a missing DATABASE_URL and a
\* rejected mongoose.connect both end the process
InitDatabase ==
    /\ boot = "configured"
    /\ boot' \in IF env.DATABASE_URL = "" THEN {"crashed"} ELSE {"connected", "crashed"}
    /\ UNCHANGED <<localStorage, env, requireAuthMw, users, nextUserId, signupQ, posts,
                   nextPostId, saving, now, resp, thrown>>

\* app.listen reached without awaiting initDatabase()
ListenWithoutAwait ==
    /\ boot \in {"configured", "connected"}
    /\ boot' = "listening"
    /\ UNCHANGED <<localStorage, env, requireAuthMw, users, nextUserId, signupQ, posts,
                   nextPostId, saving, now, resp, thrown>>

\* index.js: app.listen(port, "0.0.0.0")
Listen ==
    /\ boot = "connected"
    /\ boot' = "listening"
    /\ UNCHANGED <<localStorage, env, requireAuthMw, users, nextUserId, signupQ, posts,
                   nextPostId, saving, now, resp, thrown>>

Listening == boot = "listening"

(* ----------------------------- user routes ---------------------------- *)
SignupRequest(username, email, password) ==
    [username |-> username, email |-> email, password |-> password]

\* the signup route without its findByUserName check
SignupCheckNoLookup(username, email, password) ==
    /\ Listening
    /\ BagCardinality(signupQ) < MaxInflight
    /\ signupQ' = signupQ (+) SetToBag({SignupRequest(username, email, password)})
    /\ UNCHANGED <<localStorage, env, boot, requireAuthMw, users, nextUserId, posts,
                   nextPostId, saving, now, resp, thrown>>

\* POST /api/v1/user/signup, up to the await of createUser
SignupCheck(username, email, password) ==
    LET req == SignupRequest(username, email, password)
        checkUser == findByUserName(users, username)
    IN  /\ Listening
        /\ BagCardinality(signupQ) < MaxInflight
        /\ IF checkUser # Null
           THEN /\ resp' = Response("signup", 400,
                                    [error |-> "Username already exists"])
                /\ UNCHANGED signupQ
           ELSE /\ signupQ' = signupQ (+) SetToBag({req})
                /\ UNCHANGED resp
        /\ UNCHANGED <<localStorage, env, boot, requireAuthMw, users, nextUserId, posts,
                       nextPostId, saving, now, thrown>>

\* POST /api/v1/user/signup, from createUser to the response
SignupCreate(req, salt) ==
    /\ Listening
    /\ BagIn(req, signupQ)
    /\ nextUserId <= MaxUsers
    /\ LET newUser == NewUser(nextUserId, req.username, req.email, req.password, salt)
       IN  /\ users' = userSave(users, newUser)
           /\ resp' = Response("signup", 201, Without(newUser, "passwordHash"))
    /\ nextUserId' = nextUserId + 1
    /\ signupQ' = signupQ (-) SetToBag({req})
    /\ UNCHANGED <<localStorage, env, boot, requireAuthMw, posts, nextPostId, saving, now, thrown>>

\* POST /api/v1/user/login: the response to a result of loginUser
LoginResponse(result) ==
    IF "threw" \in DOMAIN result
    THEN Response("login", 500, [error |-> result.threw])
    ELSE IF ~result.ok
    THEN Response("login", 401, [error |-> result.message])
    ELSE Response("login", 200, [user |-> result.user, token |-> result.token])

\* POST /api/v1/user/login
Login(username, password) ==
    /\ Listening
    /\ resp' = LoginResponse(loginUser(users, env, now, username, password))
    /\ UNCHANGED <<localStorage, env, boot, requireAuthMw, users, nextUserId, signupQ, posts,
                   nextPostId, saving, now, thrown>>

\* GET /api/v1/user/:id
GetUser(username) ==
    LET user == findByUserName(users, username)
    IN  /\ Listening
        /\ resp' = IF user = Null
                   THEN Response("getUser", 404,
                                 [error |-> "User not found"])
                   ELSE Response("getUser", 200, user)
        /\ UNCHANGED <<localStorage, env, boot, requireAuthMw, users, nextUserId, signupQ, posts,
                       nextPostId, saving, now, thrown>>

\* deleteUser(username), called directly (test teardown)
DeleteUser(username) ==
    /\ env.DATABASE_URL # ""
    /\ users' = deleteUser(users, username)
    /\ thrown' = NoError
    /\ UNCHANGED <<localStorage, env, boot, requireAuthMw, nextUserId, signupQ, posts,
                   nextPostId, saving, now, resp>>

Next ==
    \/ LoadConfig
    \/ InitDatabase
    \/ Listen
    \/ \E u \in Usernames, e \in Emails, p \in Passwords : SignupCheck(u, e, p)
    \/ \E req \in BagToSet(signupQ), s \in Salts : SignupCreate(req, s)
    \/ \E u \in Usernames, p \in Passwords : Login(u, p)
    \/ \E u \in Usernames : GetUser(u)
    \/ \E u \in Usernames : DeleteUser(u)

Spec == Init /\ [][Next]_vars

(* ------------------------------ JS values ----------------------------- *)
\* an ObjectId and a string, where one field may hold either
Oid(n) == [oid |-> n]
Str(x) == [str |-> x]
\* tags left undefined by the caller
UndefinedTags == <<Undefined>>

Titles == {"Post One"}
Contents == {"Content for post"}
Tags == {"tag1", "tag2"}
TagLists == {<<"tag1">>}
SortKeys == {"createdAt", "updatedAt"}
SortOrders == {"ascending", "descending"}

(* --------------------------- JWT middleware --------------------------- *)
\* jwt.js initializeJwtMiddleware(): the middleware it builds; index.js never calls it
initializeJwtMiddleware(e) ==
    IF e.JWT_SECRET = ""
    THEN [threw |-> "JWT_SECRET environment variable is required"]
    ELSE [secret |-> e.JWT_SECRET, algorithms |-> <<"HS256">>]

\* express-jwt: the bearer token is signed with the secret and has not expired
verifyToken(mw, token, t) ==
    /\ "sig" \in DOMAIN token
    /\ token.sig = mw.secret
    /\ token.exp > t

NotInitialized == "JWT middleware not initialized. Call initializeJwtMiddleware() first."

\* requireAuth over a middleware that was built from the environment
requireAuthInitialized(mw, token, t) ==
    IF ~verifyToken(initializeJwtMiddleware(env), token, t)
    THEN Response("requireAuth", 401, [text |-> "UnauthorizedError"])
    ELSE [next |-> TRUE]

\* jwt.js requireAuth(req, res, next): "next", or the response Express sends for
\* the error (a thrown Error: 500; express-jwt's UnauthorizedError: 401)
requireAuth(mw, token, t) ==
    IF mw = Null
    THEN Response("requireAuth", 500, [text |-> NotInitialized])
    ELSE IF ~verifyToken(mw, token, t)
    THEN Response("requireAuth", 401, [text |-> "UnauthorizedError"])
    ELSE [next |-> TRUE]

(* ---------------------------- post service ---------------------------- *)
\* a document built without the contents it was given
NewPostNoContents(id, title, author, contents, tags, t) ==
    [id |-> id, title |-> title, author |-> author, contents |-> Undefined,
     tags |-> IF tags = UndefinedTags THEN <<>> ELSE tags,
     createdAt |-> t, updatedAt |-> t]

\* new Post({ title, author, contents, tags }) with its timestamps
NewPost(id, title, author, contents, tags, t) ==
    [id |-> id, title |-> title, author |-> author, contents |-> contents,
     tags |-> IF tags = UndefinedTags THEN <<>> ELSE tags,
     createdAt |-> t, updatedAt |-> t]

\* a schema whose author path is not required
MissingRequiredTitleOnly(title, author) ==
    {k \in {"title"} : title = Undefined}

\* postSchema: the required paths that are missing
MissingRequired(title, author) ==
    {k \in {"title", "author"} :
        \/ k = "title" /\ title = Undefined
        \/ k = "author" /\ author = 0}

AllPosts == [kind |-> "all"]
ByAuthor(author) == [kind |-> "author", author |-> author]
ByTag(tag) == [kind |-> "tags", tags |-> tag]

\* { $match: query }
Matches(post, query) ==
    CASE query.kind = "all" -> TRUE
      [] query.kind = "author" -> Oid(post.author) = query.author
      [] query.kind = "tags" -> \E i \in 1..Len(post.tags) : post.tags[i] = query.tags

MatchPosts(ps, query) == SelectSeq(ps, LAMBDA post : Matches(post, query))

\* the direction that reverses the two sort orders
SortDirectionSwapped(sortOrder) == IF sortOrder = "ascending" THEN -1 ELSE 1

\* sortOrder === "descending" ? -1 : 1
SortDirection(sortOrder) == IF sortOrder = "descending" THEN -1 ELSE 1

\* x put behind the documents of a sorted sequence that do not come after it
InsertSorted(sorted, x, key, dir) ==
    LET k == Cardinality({i \in 1..Len(sorted) : dir * sorted[i][key] <= dir * x[key]})
    IN  SubSeq(sorted, 1, k) \o <<x>> \o SubSeq(sorted, k + 1, Len(sorted))

RECURSIVE SortPosts(_, _, _)
\* { $sort: { [sortBy]: dir } }
SortPosts(ps, key, dir) ==
    IF ps = <<>>
    THEN <<>>
    ELSE InsertSorted(SortPosts(SubSeq(ps, 1, Len(ps) - 1), key, dir), ps[Len(ps)], key, dir)

\* the users a $lookup on _id joins to a post
AuthorDetails(us, post) == SelectSeq(us, LAMBDA u : u.id = post.author)

\* the pipeline without its $set stage: the author stays the reference id
ResolveAuthorKeepsId(us, post) == [post EXCEPT !.author = Oid(post.author)]

\* $lookup, $set author to the first joined username, $project authorDetails away;
\* with nothing joined the value is missing and the author field is dropped
ResolveAuthor(us, post) ==
    LET authorDetails == AuthorDetails(us, post)
    IN  IF authorDetails = <<>>
        THEN Without(post, "author")
        ELSE [post EXCEPT !.author = Str(authorDetails[1].username)]

\* listPosts whose default sortOrder is "ascending"
listPostsDefaultAscending(ps, us, query, sortBy, sortOrder) ==
    LET key == IF sortBy = Undefined THEN "createdAt" ELSE sortBy
        order == IF sortOrder = Undefined THEN "ascending" ELSE sortOrder
        sorted == SortPosts(MatchPosts(ps, query), key, SortDirection(order))
    IN  [i \in 1..Len(sorted) |-> ResolveAuthor(us, sorted[i])]

\* listPosts(query, { sortBy = "createdAt", sortOrder = "descending" })
listPosts(ps, us, query, sortBy, sortOrder) ==
    LET key == IF sortBy = Undefined THEN "createdAt" ELSE sortBy
        order == IF sortOrder = Undefined THEN "descending" ELSE sortOrder
        sorted == SortPosts(MatchPosts(ps, query), key, SortDirection(order))
    IN  [i \in 1..Len(sorted) |-> ResolveAuthor(us, sorted[i])]

listAllPosts(ps, us, sortBy, sortOrder) == listPosts(ps, us, AllPosts, sortBy, sortOrder)

listPostsByAuthor(ps, us, author, sortBy, sortOrder) ==
    listPosts(ps, us, ByAuthor(author), sortBy, sortOrder)

listPostsByTag(ps, us, tags, sortBy, sortOrder) ==
    listPosts(ps, us, ByTag(tags), sortBy, sortOrder)

\* Post.findById(postId), or null
findPostById(ps, postId) ==
    LET i == FirstIndex(ps, LAMBDA post : post.id = postId)
    IN  IF i = 0 THEN Null ELSE ps[i]

\* .populate("author", "username"): the referenced user's _id and username, or null
Populate(us, post) ==
    LET i == FirstIndex(us, LAMBDA u : u.id = post.author)
    IN  IF i = 0 THEN Null ELSE [id |-> us[i].id, username |-> us[i].username]

\* getPostById(postId): author: postObj.author?.username || postObj.author
getPostById(ps, us, postId) ==
    LET post == findPostById(ps, postId)
    IN  IF post = Null
        THEN Null
        ELSE LET author == Populate(us, post)
             IN  [post EXCEPT !.author =
                    IF author # Null /\ author.username # ""
                    THEN Str(author.username)
                    ELSE author]

\* Post.deleteOne({ _id: postId })
deletePost(ps, postId) ==
    LET i == FirstIndex(ps, LAMBDA post : post.id = postId)
    IN  IF i = 0 THEN ps ELSE RemoveAt(ps, i)

\* the titles, contents and tag lists an update supplies
NewTitles == {"Updated Post"}
NewContents == {"Updated content"}
NewTagLists == {<<"tag2">>}

\* $set: { title, author, contents, tags } as Mongoose sends it: a key whose
\* value is undefined is removed from the update, so that field keeps its
\* stored value; the timestamps option sets updatedAt
SetFields(post, title, author, contents, tags, t) ==
    [post EXCEPT !.title = IF title = Undefined THEN @ ELSE title,
                 !.author = IF author = 0 THEN @ ELSE author,
                 !.contents = IF contents = Undefined THEN @ ELSE contents,
                 !.tags = IF tags = UndefinedTags THEN @ ELSE tags,
                 !.updatedAt = t]

\* Post.findOneAndUpdate({ _id: postId }, { $set: ... }, { new: true, runValidators: true })
updatePost(ps, postId, title, author, contents, tags, t) ==
    LET i == FirstIndex(ps, LAMBDA post : post.id = postId)
    IN  IF i = 0
        THEN ps
        ELSE [ps EXCEPT ![i] = SetFields(ps[i], title, author, contents, tags, t)]

(* ------------------------- direct service calls ----------------------- *)
\* the wall clock advances
Tick ==
    /\ now < MaxClock
    /\ now' = now + 1
    /\ UNCHANGED <<localStorage, env, boot, requireAuthMw, users, nextUserId, signupQ, posts,
                   nextPostId, saving, resp, thrown>>

\* createUser(sampleUser), called directly (test fixture)
CreateUser(username) ==
    /\ env.DATABASE_URL # ""
    /\ nextUserId <= MaxUsers
    /\ \E salt \in Salts :
         users' = userSave(users, NewUser(nextUserId, username,
                                          "test@rolandklahitar.dev", "testpassword", salt))
    /\ nextUserId' = nextUserId + 1
    /\ thrown' = NoError
    /\ UNCHANGED <<localStorage, env, boot, requireAuthMw, signupQ, posts, nextPostId, saving,
                   now, resp>>

\* createPost({ title, author, contents, tags }), called directly, up to the
\* insert: validation and timestamps run inside save() before the write
CreatePostBegin(title, author, contents, tags) ==
    /\ env.DATABASE_URL # ""
    /\ IF MissingRequired(title, author) # {}
       THEN /\ thrown' = [name |-> "ValidationError", kind |-> "required",
                          paths |-> MissingRequired(title, author)]
            /\ UNCHANGED <<saving, nextPostId>>
       ELSE /\ nextPostId <= MaxPosts
            /\ Cardinality(saving) < MaxSaving
            /\ saving' = saving \cup
                   {[via |-> "service",
                     doc |-> NewPost(nextPostId, title, author, contents, tags, now)]}
            /\ nextPostId' = nextPostId + 1
            /\ UNCHANGED thrown
    /\ UNCHANGED <<localStorage, env, boot, requireAuthMw, users, nextUserId, signupQ, posts,
                   now, resp>>

\* the insert of a post document reaches the collection; its caller resumes
CreatePostSave(s) ==
    /\ s \in saving
    /\ posts' = Append(posts, s.doc)
    /\ saving' = saving \ {s}
    /\ IF s.via = "http"
       THEN resp' = Response("createPost", 201, s.doc) /\ UNCHANGED thrown
       ELSE thrown' = NoError /\ UNCHANGED resp
    /\ UNCHANGED <<localStorage, env, boot, requireAuthMw, users, nextUserId, signupQ,
                   nextPostId, now>>

\* updatePost(postId, { title, author, contents, tags }), called directly
UpdatePost(postId, title, author, contents, tags) ==
    /\ env.DATABASE_URL # ""
    /\ posts' = updatePost(posts, postId, title, author, contents, tags, now)
    /\ thrown' = NoError
    /\ UNCHANGED <<localStorage, env, boot, requireAuthMw, users, nextUserId, signupQ,
                   nextPostId, saving, now, resp>>

\* deletePost(postId), called directly; its result is { deletedCount }
DeletePost(postId) ==
    /\ env.DATABASE_URL # ""
    /\ posts' = deletePost(posts, postId)
    /\ thrown' = NoError
    /\ UNCHANGED <<localStorage, env, boot, requireAuthMw, users, nextUserId, signupQ,
                   nextPostId, saving, now, resp>>

\* the deletedCount of a deleteOne that took the collection from ps to after
deletedCount(ps, after) == Len(ps) - Len(after)

(* ----------------------------- post routes ---------------------------- *)
Tokens == {NoToken, GarbageToken}
          \cup {jwtSign(u.id, u.username, "s3cret", t) :
                    u \in {users[i] : i \in 1..Len(users)}, t \in 0..now}

\* the id of a request path: 24 hex characters naming ObjectId n, or malformed
HexId(n) == [hex |-> n]
MalformedId == [malformed |-> TRUE]
PathIds == {MalformedId} \cup {HexId(n) : n \in 1..MaxPosts}

\* id.match(/^[0-9a-fA-F]{24}$/)
WellFormedId(id) == "hex" \in DOMAIN id

\* POST /api/v1/posts
HttpCreatePost(token, title, author, contents, tags) ==
    LET auth == requireAuth(requireAuthMw, token, now)
        userId == findUserId(users, author)
    IN  /\ Listening
        /\ IF "next" \notin DOMAIN auth
           THEN resp' = [auth EXCEPT !.route = "createPost"] /\ UNCHANGED <<saving, nextPostId>>
           ELSE IF title = Undefined \/ author = Undefined \/ contents = Undefined
           THEN /\ resp' = Response("createPost", 400,
                                    [text |-> "Title, author, and contents are required"])
                /\ UNCHANGED <<saving, nextPostId>>
           ELSE IF userId = 0
           THEN /\ resp' = Response("createPost", 400, [text |-> "Author does not exist"])
                /\ UNCHANGED <<saving, nextPostId>>
           ELSE /\ nextPostId <= MaxPosts
                /\ Cardinality(saving) < MaxSaving
                /\ saving' = saving \cup
                       {[via |-> "http",
                         doc |-> NewPost(nextPostId, title, userId, contents, tags, now)]}
                /\ nextPostId' = nextPostId + 1
                /\ UNCHANGED resp
        /\ UNCHANGED <<localStorage, env, boot, requireAuthMw, users, nextUserId, signupQ, posts,
                       now, thrown>>

\* PATCH /api/v1/posts/:id; updatePost is handed the username as the author,
\* which Mongoose cannot cast to an ObjectId
HttpUpdatePost(token, id, title, author, contents, tags) ==
    LET auth == requireAuth(requireAuthMw, token, now)
    IN  /\ Listening
        /\ resp' =
             IF "next" \notin DOMAIN auth
             THEN [auth EXCEPT !.route = "updatePost"]
             ELSE IF title = Undefined \/ author = Undefined \/ contents = Undefined
             THEN Response("updatePost", 400,
                           [text |-> "Post ID, title, author, and contents are required"])
             ELSE IF ~WellFormedId(id)
             THEN Response("updatePost", 400, [text |-> "Invalid post ID format"])
             ELSE Response("updatePost", 500, [text |-> "Internal Server Error"])
        /\ UNCHANGED <<localStorage, env, boot, requireAuthMw, users, nextUserId, signupQ, posts,
                       nextPostId, saving, now, thrown>>

\* DELETE /api/v1/posts/:id
HttpDeletePost(token, id) ==
    LET auth == requireAuth(requireAuthMw, token, now)
    IN  /\ Listening
        /\ IF "next" \notin DOMAIN auth
           THEN resp' = [auth EXCEPT !.route = "deletePost"] /\ UNCHANGED posts
           ELSE IF ~WellFormedId(id)
           THEN /\ resp' = Response("deletePost", 400, [text |-> "Invalid post ID format"])
                /\ UNCHANGED posts
           ELSE /\ posts' = deletePost(posts, id.hex)
                /\ resp' = IF Len(posts') = Len(posts)
                           THEN Response("deletePost", 404, [text |-> "Post not found"])
                           ELSE Response("deletePost", 204, Null)
        /\ UNCHANGED <<localStorage, env, boot, requireAuthMw, users, nextUserId, signupQ,
                       nextPostId, saving, now, thrown>>

\* the sortBy and sortOrder values of a query string: absent, empty, or a name
SortByParams == SortKeys \cup {Undefined, ""}
SortOrderParams == SortOrders \cup {Undefined}

\* { $sort: { [sortBy]: ... } }: the server rejects an empty field path
ValidSortKey(sortBy) == sortBy # ""

\* GET /api/v1/posts without the check that refuses author together with tag
HttpListPostsNoExclusion(sortBy, sortOrder, author, tag) ==
    /\ Listening
    /\ resp' =
         IF ~ValidSortKey(sortBy)
         THEN Response("listPosts", 500, [text |-> "Internal Server Error"])
         ELSE IF author # Undefined
         THEN Response("listPosts", 200,
                       [array |-> listPostsByAuthor(posts, users, Str(author), sortBy, sortOrder)])
         ELSE IF tag # Undefined
         THEN Response("listPosts", 200,
                       [array |-> listPostsByTag(posts, users, tag, sortBy, sortOrder)])
         ELSE Response("listPosts", 200,
                       [array |-> listAllPosts(posts, users, sortBy, sortOrder)])
    /\ UNCHANGED <<localStorage, env, boot, requireAuthMw, users, nextUserId, signupQ, posts,
                   nextPostId, saving, now, thrown>>

\* GET /api/v1/posts; author and tag arrive as the strings of the query
HttpListPosts(sortBy, sortOrder, author, tag) ==
    /\ Listening
    /\ resp' =
         IF author # Undefined /\ tag # Undefined
         THEN Response("listPosts", 400,
                       [error |-> "Please specify either author or tag, not both."])
         ELSE IF ~ValidSortKey(sortBy)
         THEN Response("listPosts", 500, [text |-> "Internal Server Error"])
         ELSE IF author # Undefined
         THEN Response("listPosts", 200,
                       [array |-> listPostsByAuthor(posts, users, Str(author), sortBy, sortOrder)])
         ELSE IF tag # Undefined
         THEN Response("listPosts", 200,
                       [array |-> listPostsByTag(posts, users, tag, sortBy, sortOrder)])
         ELSE Response("listPosts", 200,
                       [array |-> listAllPosts(posts, users, sortBy, sortOrder)])
    /\ UNCHANGED <<localStorage, env, boot, requireAuthMw, users, nextUserId, signupQ, posts,
                   nextPostId, saving, now, thrown>>

\* GET /api/v1/posts/:id
HttpGetPost(id) ==
    /\ Listening
    /\ resp' =
         IF ~WellFormedId(id)
         THEN Response("getPost", 400, [text |-> "Invalid post ID format"])
         ELSE IF getPostById(posts, users, id.hex) = Null
         THEN Response("getPost", 404, [text |-> "Post not found"])
         ELSE Response("getPost", 200, getPostById(posts, users, id.hex))
    /\ UNCHANGED <<localStorage, env, boot, requireAuthMw, users, nextUserId, signupQ, posts,
                   nextPostId, saving, now, thrown>>

UserIds == {users[i].id : i \in 1..Len(users)}

\* a deployment with its signing secret and its database configured
InitConfigured ==
    /\ Init
    /\ env = [JWT_SECRET |-> "s3cret", DATABASE_URL |-> "mongodb://db/blog"]

\* the post service under its direct callers
NextPosts ==
    \/ Tick
    \/ \E u \in Usernames : CreateUser(u)
    \/ \E u \in Usernames : DeleteUser(u)
    \/ \E title \in Titles, author \in UserIds, contents \in Contents,
          tags \in TagLists \cup {UndefinedTags} :
            CreatePostBegin(title, author, contents, tags)
    \/ \E s \in saving : CreatePostSave(s)

SpecPosts == InitConfigured /\ [][NextPosts]_vars

\* the server with its post routes, over a database that direct callers fill
NextRoutes ==
    \/ LoadConfig
    \/ InitDatabase
    \/ Listen
    \/ \E u \in Usernames : CreateUser(u)
    \/ \E title \in Titles, author \in UserIds, contents \in Contents, tags \in TagLists :
            CreatePostBegin(title, author, contents, tags)
    \/ \E s \in saving : CreatePostSave(s)
    \/ \E token \in Tokens, title \in Titles \cup {Undefined},
          author \in Usernames \cup {Undefined},
          contents \in Contents \cup {Undefined}, tags \in TagLists \cup {UndefinedTags} :
            HttpCreatePost(token, title, author, contents, tags)
    \/ \E token \in Tokens, id \in PathIds, title \in Titles \cup {Undefined},
          author \in Usernames \cup {Undefined},
          contents \in Contents \cup {Undefined}, tags \in TagLists \cup {UndefinedTags} :
            HttpUpdatePost(token, id, title, author, contents, tags)
    \/ \E token \in Tokens, id \in PathIds : HttpDeletePost(token, id)
    \/ \E sortBy \in SortByParams, sortOrder \in SortOrderParams,
          author \in Usernames \cup {Undefined}, tag \in Tags \cup {Undefined} :
            HttpListPosts(sortBy, sortOrder, author, tag)
    \/ \E id \in PathIds : HttpGetPost(id)
    \/ \E postId \in 1..MaxPosts : DeletePost(postId)

SpecRoutes == InitConfigured /\ [][NextRoutes]_vars

\* a sortOrder that is neither of the two documented values
OtherSortOrders == {"desc"}

\* the public listing route over posts created at different times
NextReads ==
    \/ LoadConfig
    \/ InitDatabase
    \/ Listen
    \/ Tick
    \/ \E u \in Usernames : CreateUser(u)
    \/ \E title \in Titles, author \in UserIds, contents \in Contents, tags \in TagLists :
            CreatePostBegin(title, author, contents, tags)
    \/ \E s \in saving : CreatePostSave(s)
    \/ \E sortBy \in SortKeys \cup {Undefined},
          sortOrder \in SortOrderParams \cup OtherSortOrders,
          tag \in Tags \cup {Undefined} :
            HttpListPosts(sortBy, sortOrder, Undefined, tag)

SpecReads == InitConfigured /\ [][NextReads]_vars

\* createPost and updatePost under their direct callers, with the inputs a
\* caller may leave out
NextWrites ==
    \/ Tick
    \/ \E u \in Usernames : CreateUser(u)
    \/ \E title \in Titles \cup {Undefined}, author \in UserIds \cup {0},
          contents \in Contents \cup {Undefined}, tags \in TagLists \cup {UndefinedTags} :
            CreatePostBegin(title, author, contents, tags)
    \/ \E s \in saving : CreatePostSave(s)
    \/ \E postId \in 1..MaxPosts, title \in NewTitles, author \in UserIds,
          contents \in NewContents, tags \in NewTagLists \cup {UndefinedTags} :
            UpdatePost(postId, title, author, contents, tags)
    \/ \E postId \in 1..MaxPosts : DeletePost(postId)

SpecWrites == InitConfigured /\ [][NextWrites]_vars

(* ------------------------- claims: credentials ------------------------ *)
\* C1: no HTTP response of POST /user/signup, POST /user/login or
\* GET /user/:username carries a passwordHash field, at the top level of the
\* body or in its user object.
C1_NoPasswordHashInResponse ==
    /\ "passwordHash" \notin DOMAIN resp.body
    /\ "user" \in DOMAIN resp.body => "passwordHash" \notin DOMAIN resp.body.user

\* C2: no two stored users share a username, whatever the interleaving of
\* concurrent signups.
C2_UsernameUnique ==
    \A i, j \in 1..Len(users) : users[i].username = users[j].username => i = j

\* C3: a signup whose username is already stored is answered 400 with an
\* error body, creates nothing and leaves the stored records as they are.
C3_DuplicateSignupRejected ==
    [][\A u \in Usernames, e \in Emails, p \in Passwords :
         (findByUserName(users, u) # Null /\ SignupCheck(u, e, p))
         => /\ resp'.route = "signup"
            /\ resp'.status = 400
            /\ "error" \in DOMAIN resp'.body
            /\ users' = users
            /\ signupQ' = signupQ
            /\ nextUserId' = nextUserId]_vars

\* a duplicate signup has been answered 400 while the first record stands alone
C3_Witness ==
    /\ resp = Response("signup", 400, [error |-> "Username already exists"])
    /\ Len(users) = 1
    /\ signupQ = EmptyBag

UnknownUser(u) == findByUserName(users, u) = Null

WrongPassword(u, p) ==
    /\ findByUserName(users, u) # Null
    /\ ~bcryptCompare(p, findByUserName(users, u).passwordHash)

\* C4: a login with an unknown username and a login with a known username and
\* a wrong password get the same result, {ok:false, message:"Invalid username
\* or password"}, and the same 401 response; neither carries a token.
C4_LoginFailuresIndistinguishable ==
    \A u1, u2 \in Usernames, p1, p2 \in Passwords :
        (UnknownUser(u1) /\ WrongPassword(u2, p2)) =>
            LET r1 == loginUser(users, env, now, u1, p1)
                r2 == loginUser(users, env, now, u2, p2)
            IN  /\ r1 = [ok |-> FALSE, message |-> "Invalid username or password"]
                /\ r2 = r1
                /\ LoginResponse(r1) = LoginResponse(r2)
                /\ LoginResponse(r1).status = 401
                /\ DOMAIN LoginResponse(r1).body = {"error"}
                /\ "token" \notin DOMAIN r1

\* a failed login has been answered while both causes of failure are possible
C4_Witness ==
    /\ resp.route = "login"
    /\ resp.status = 401
    /\ \E u1, u2 \in Usernames, p2 \in Passwords : UnknownUser(u1) /\ WrongPassword(u2, p2)

\* C5: once a signup (u, e, p) is answered 201 on a server that has its
\* signing secret, loginUser(u, q) succeeds exactly when q = p, and its token
\* carries the id and the username of the user that signup created.
C5_LoginExactlyWithSignupPassword ==
    [][\A req \in BagToSet(signupQ), s \in Salts :
         (env.JWT_SECRET # "" /\ SignupCreate(req, s)) =>
            \A q \in Passwords :
                LET r == loginUser(users', env, now, req.username, q)
                IN  /\ r.ok <=> (q = req.password)
                    /\ r.ok => /\ r.token.id = resp'.body.id
                               /\ r.token.username = req.username]_vars

\* C7: a process started without JWT_SECRET never listens and never answers
\* a request.
C7_MissingSecretIsFatal ==
    env.JWT_SECRET = "" => (boot # "listening" /\ resp = NoResponse)

(* --------------------------- claims: routes --------------------------- *)
UnauthenticatedTokens == {NoToken, GarbageToken}

\* a POST, PATCH or DELETE /posts request carrying the token is answered in this step
ProtectedRequest(token) ==
    \/ \E title \in Titles \cup {Undefined}, author \in Usernames \cup {Undefined},
          contents \in Contents \cup {Undefined}, tags \in TagLists \cup {UndefinedTags} :
            HttpCreatePost(token, title, author, contents, tags)
    \/ \E id \in PathIds, title \in Titles \cup {Undefined},
          author \in Usernames \cup {Undefined},
          contents \in Contents \cup {Undefined}, tags \in TagLists \cup {UndefinedTags} :
            HttpUpdatePost(token, id, title, author, contents, tags)
    \/ \E id \in PathIds : HttpDeletePost(token, id)

\* C6: every POST, PATCH and DELETE /posts request without a valid bearer
\* token is answered 401 whatever its payload, and its handler does not run:
\* no post is created, changed or removed.
C6_ProtectedRoutesReject ==
    [][\A token \in UnauthenticatedTokens :
         ProtectedRequest(token) =>
            /\ resp'.status = 401
            /\ posts' = posts
            /\ saving' = saving]_vars

\* C8: requireAuth never throws "JWT middleware not initialized": no request
\* is answered by that error.
C8_RequireAuthInitialized ==
    ~("text" \in DOMAIN resp.body /\ resp.body.text = NotInitialized)

(* --------------------------- claims: listing -------------------------- *)
\* every listing the three entry points can return for the current store
Listings ==
    {listPosts(posts, users, q, sortBy, sortOrder) :
        q \in {AllPosts} \cup {ByAuthor(Oid(a)) : a \in 1..MaxUsers}
                         \cup {ByTag(t) : t \in Tags},
        sortBy \in SortKeys \cup {Undefined},
        sortOrder \in SortOrders \cup {Undefined}}

\* the stored users a post's author reference points to
Referenced(post) == {u \in {users[i] : i \in 1..Len(users)} : u.id = post.author}

\* the statement of C9 as written: every returned post carries the username
\* of the user its author reference points to.
C9_AuthorIsUsername ==
    /\ \A l \in Listings : \A i \in 1..Len(l) :
         /\ "author" \in DOMAIN l[i]
         /\ \E u \in Referenced(findPostById(posts, l[i].id)) :
              l[i].author = Str(u.username)
    /\ \A k \in 1..Len(posts) :
         \E u \in Referenced(posts[k]) :
            getPostById(posts, users, posts[k].id).author = Str(u.username)

\* C9: for every stored post whose author reference points to a stored user,
\* every listing that contains the post and getPostById of it carry that
\* user's username as the author; a post whose author has been deleted is
\* listed without an author and fetched with a null author; the author is in
\* no case the raw reference id.
C9_AuthorResolved ==
    /\ \A l \in Listings : \A i \in 1..Len(l) :
         LET post == findPostById(posts, l[i].id)
         IN  /\ post # Null
             /\ \A u \in Referenced(post) :
                  "author" \in DOMAIN l[i] /\ l[i].author = Str(u.username)
             /\ Referenced(post) = {} => "author" \notin DOMAIN l[i]
             /\ "author" \in DOMAIN l[i] => l[i].author # Oid(post.author)
    /\ \A k \in 1..Len(posts) :
         LET got == getPostById(posts, users, posts[k].id)
         IN  /\ \A u \in Referenced(posts[k]) : got.author = Str(u.username)
             /\ Referenced(posts[k]) = {} => got.author = Null
             /\ got.author # Oid(posts[k].author)

\* one stored post has its author, another has lost it to deleteUser
C9_Witness ==
    \E j, k \in 1..Len(posts) :
        /\ Referenced(posts[j]) # {}
        /\ Referenced(posts[k]) = {}
        /\ listAllPosts(posts, users, Undefined, Undefined) # <<>>

DistinctCreatedAt(ps) ==
    \A i, j \in 1..Len(ps) : ps[i].createdAt = ps[j].createdAt => i = j

\* C10: for posts with distinct createdAt, listAllPosts and listPostsByAuthor
\* sorted by createdAt ascending return the matching posts oldest first, each
\* exactly once, and sorted descending return them in the reverse order.
C10_SortedByCreatedAt ==
    \A q \in {AllPosts} \cup {ByAuthor(Oid(a)) : a \in 1..MaxUsers} :
        LET m == MatchPosts(posts, q)
            asc == listPosts(posts, users, q, "createdAt", "ascending")
            desc == listPosts(posts, users, q, "createdAt", "descending")
        IN  DistinctCreatedAt(m) =>
                /\ Len(asc) = Len(m)
                /\ {asc[i].id : i \in 1..Len(asc)} = {m[i].id : i \in 1..Len(m)}
                /\ \A i, j \in 1..Len(asc) : i < j => asc[i].createdAt < asc[j].createdAt
                /\ Len(desc) = Len(asc)
                /\ \A i \in 1..Len(asc) : desc[i] = asc[Len(asc) + 1 - i]

\* two posts of one author are stored newest first
C10_Witness ==
    /\ Len(posts) >= 2
    /\ posts[1].author = posts[2].author
    /\ posts[1].createdAt > posts[2].createdAt

(* ------------------------ claims: reading posts ----------------------- *)
\* this step answers a request on the route with a new response
Answered(route) == resp' # resp /\ resp'.route = route

\* the ids of the stored posts whose author is a user named username
PostsOfUser(username) ==
    {posts[k].id : k \in {k \in 1..Len(posts) :
        \E i \in 1..Len(users) :
            users[i].username = username /\ users[i].id = posts[k].author}}

\* the ids of the posts in the array of a 200 response
ArrayIds(response) == {response.body.array[i].id : i \in 1..Len(response.body.array)}

\* C11: GET /posts?author=U without a tag is answered 200 with exactly the
\* posts whose author is the user named U.
C11_AuthorFilterByUsername ==
    [][\A sortBy \in SortKeys \cup {Undefined}, sortOrder \in SortOrderParams,
          U \in Usernames :
         (Answered("listPosts") /\ HttpListPosts(sortBy, sortOrder, U, Undefined)) =>
            /\ resp'.status = 200
            /\ ArrayIds(resp') = PostsOfUser(U)]_vars

C13_CreatePostRequired ==
    /\ [][\A title \in Titles \cup {Undefined}, author \in 0..MaxUsers,
             contents \in Contents \cup {Undefined}, tags \in TagLists \cup {UndefinedTags} :
            CreatePostBegin(title, author, contents, tags) =>
                IF title = Undefined \/ author = 0
                THEN /\ thrown'.name = "ValidationError"
                     /\ thrown'.kind = "required"
                     /\ posts' = posts
                     /\ saving' = saving
                ELSE /\ thrown' = thrown
                     /\ \E s \in saving' \ saving :
                          /\ s.doc.title = title
                          /\ s.doc.author = author
                          /\ s.doc.contents = contents]_vars
    /\ [][\A s \in saving :
            (s.via = "service" /\ CreatePostSave(s)) =>
                /\ posts' = Append(posts, s.doc)
                /\ thrown' = NoError]_vars

\* a createPost has been refused for a missing field while a post given
\* without contents and tags is stored
C13_Witness ==
    /\ thrown.name = "ValidationError"
    /\ \E k \in 1..Len(posts) : posts[k].contents = Undefined /\ posts[k].tags = <<>>

(* ---------------------- claims: authenticated routes ------------------ *)
\* the bearer tokens express-jwt would accept now: signed with the secret, not expired
ValidTokens ==
    {token \in Tokens : verifyToken([secret |-> env.JWT_SECRET], token, now)}

\* the request bodies that carry title, author and contents
FullBodies ==
    [title : Titles, author : Usernames, contents : Contents,
     tags : TagLists \cup {UndefinedTags}]

\* C14: an authenticated POST /posts whose author names no stored user is
\* answered 400 and persists no post.
C14_UnknownAuthorRejected ==
    [][\A token \in ValidTokens, b \in FullBodies :
         (/\ findUserId(users, b.author) = 0
          /\ Answered("createPost")
          /\ HttpCreatePost(token, b.title, b.author, b.contents, b.tags))
         => /\ resp'.status = 400
            /\ posts' = posts
            /\ saving' = saving]_vars

\* C16: an authenticated PATCH /posts/:id of a stored post, with title, the
\* username of a stored user, contents and tags, is answered 200 with the post
\* of that id carrying the new title, and the stored post has the new title.
C16_UpdateAnswered200 ==
    [][\A token \in ValidTokens, n \in 1..MaxPosts, b \in FullBodies :
         (/\ findPostById(posts, n) # Null
          /\ findUserId(users, b.author) # 0
          /\ b.tags # UndefinedTags
          /\ Answered("updatePost")
          /\ HttpUpdatePost(token, HexId(n), b.title, b.author, b.contents, b.tags))
         => /\ resp'.status = 200
            /\ resp'.body.id = n
            /\ resp'.body.title = b.title
            /\ findPostById(posts', n).title = b.title]_vars

\* C17: a well-formed id that matches no stored post is answered 404 by
\* GET /posts/:id, by an authenticated PATCH with title, author and contents,
\* and by an authenticated DELETE; the posts are unchanged.
C17_UnknownIdIs404 ==
    [][\A n \in 1..MaxPosts :
         (/\ findPostById(posts, n) = Null
          /\ \/ Answered("getPost") /\ HttpGetPost(HexId(n))
             \/ /\ Answered("updatePost")
                /\ \E token \in ValidTokens, b \in FullBodies :
                      HttpUpdatePost(token, HexId(n), b.title, b.author, b.contents, b.tags)
             \/ /\ Answered("deletePost")
                /\ \E token \in ValidTokens : HttpDeletePost(token, HexId(n)))
         => /\ resp'.status = 404
            /\ posts' = posts]_vars

\* C18: an id that is not 24 hexadecimal characters is answered 400 by
\* GET /posts/:id and by an authenticated PATCH or DELETE /posts/:id, and the
\* posts are not touched.
C18_MalformedIdIs400 ==
    [][(\/ Answered("getPost") /\ HttpGetPost(MalformedId)
        \/ /\ Answered("updatePost")
           /\ \E token \in ValidTokens, b \in FullBodies :
                 HttpUpdatePost(token, MalformedId, b.title, b.author, b.contents, b.tags)
        \/ /\ Answered("deletePost")
           /\ \E token \in ValidTokens : HttpDeletePost(token, MalformedId))
       => /\ resp'.status = 400
          /\ posts' = posts]_vars

\* C20: an authenticated DELETE /posts/:id of a stored post is answered 204
\* and removes exactly that post: the id is no longer found and every other
\* post is stored as before.
C20_DeleteRemovesThePost ==
    [][\A token \in ValidTokens, n \in 1..MaxPosts :
         (/\ findPostById(posts, n) # Null
          /\ Answered("deletePost")
          /\ HttpDeletePost(token, HexId(n)))
         => /\ resp'.status = 204
            /\ findPostById(posts', n) = Null
            /\ getPostById(posts', users', n) = Null
            /\ posts' = SelectSeq(posts, LAMBDA post : post.id # n)]_vars

(* ------------------------- claims: updating posts --------------------- *)
\* C19: after updatePost(id, fields) on a stored post, the stored title,
\* author, contents and tags are exactly those of fields; tags left out of
\* fields leave no previous tag list behind.
C19_UpdateReplacesAllFields ==
    [][\A postId \in 1..MaxPosts, title \in NewTitles, author \in 1..MaxUsers,
          contents \in NewContents, tags \in NewTagLists \cup {UndefinedTags} :
         (/\ findPostById(posts, postId) # Null
          /\ posts' # posts
          /\ UpdatePost(postId, title, author, contents, tags))
         => LET stored == findPostById(posts', postId)
            IN  /\ stored.title = title
                /\ stored.author = author
                /\ stored.contents = contents
                /\ stored.tags = IF tags = UndefinedTags THEN <<>> ELSE tags]_vars

(* ------------------------- claims: deleting posts --------------------- *)
\* C21: deleting a post id that is not in the store reports not found every
\* time: deletePost returns deletedCount 0, an authenticated DELETE /posts/:id
\* is answered 404, and either leaves the store unchanged; this covers the
\* second delete after a successful one.
C21_DeleteIsIdempotent ==
    /\ [][\A n \in 1..MaxPosts :
            (findPostById(posts, n) = Null /\ DeletePost(n))
            => deletedCount(posts, posts') = 0 /\ posts' = posts]_vars
    /\ [][\A n \in 1..MaxPosts :
            (findPostById(posts, n) # Null /\ DeletePost(n))
            => /\ deletedCount(posts, posts') = 1
               /\ deletePost(posts', n) = posts']_vars
    /\ [][\A n \in 1..MaxPosts, token \in ValidTokens :
            (/\ findPostById(posts, n) = Null
             /\ Answered("deletePost")
             /\ HttpDeletePost(token, HexId(n)))
            => resp'.status = 404 /\ posts' = posts]_vars

(* --------------------------- claims: round trip ----------------------- *)
\* the title, contents and tags of a post document
Payload(post) == <<post.title, post.contents, post.tags>>

C23_ErrorsAreJson ==
    resp.status \in {400, 401, 404} => DOMAIN resp.body = {"error"}

(* ---------------------------- claims: tokens -------------------------- *)
\* the tokens a successful login has minted
MintedTokens == Tokens \ UnauthenticatedTokens

\* C24: a token minted by a login passes requireAuth on every protected
\* request made before its expiry, whatever has happened since, and is
\* answered 401 on every protected request made after it.
C24_ExpiryOnlyInvalidation ==
    [][\A token \in MintedTokens :
         ProtectedRequest(token) =>
            IF token.exp > now
            THEN "next" \in DOMAIN requireAuth(requireAuthMw, token, now)
            ELSE resp'.status = 401]_vars

(* --------------------------- claims: ownership ------------------------ *)
\* the usernames of the stored users a post's author reference points to
AuthorNames(post) == {u.username : u \in Referenced(post)}

UpdateCalls ==
    [title : NewTitles, author : UserIds, contents : NewContents,
     tags : NewTagLists \cup {UndefinedTags}]

\* the stored post carries exactly the four fields of the call
TakenFrom(post, call) ==
    /\ post.title = call.title
    /\ post.author = call.author
    /\ post.contents = call.contents
    /\ post.tags = IF call.tags = UndefinedTags THEN <<>> ELSE call.tags

\* C26: each updatePost is one findOneAndUpdate, so two concurrent calls on a
\* post take effect one after the other; whatever the order, the final title,
\* author, contents and tags are all four those of one and the same call.
C26_LastWriterWins ==
    \A k \in 1..Len(posts) : \A a, b \in UpdateCalls :
        LET id == posts[k].id
            first == updatePost(posts, id, a.title, a.author, a.contents, a.tags, now)
            final == updatePost(first, id, b.title, b.author, b.contents, b.tags, now)
        IN  \E c \in {a, b} : TakenFrom(findPostById(final, id), c)

(* -------------------------- claims: default order --------------------- *)
\* the listing runs from the largest key to the smallest (dir = -1) or back (dir = 1)
Ordered(l, key, dir) ==
    \A i, j \in 1..Len(l) : i < j => dir * l[i][key] <= dir * l[j][key]

\* C27: GET /posts without sortBy and sortOrder returns the matching posts
\* newest first by createdAt; with a sortOrder other than "descending" it
\* returns them in ascending order of the sort key.
C27_DefaultOrdering ==
    [][\A sortBy \in SortKeys \cup {Undefined},
          sortOrder \in SortOrderParams \cup OtherSortOrders,
          tag \in Tags \cup {Undefined} :
         (Answered("listPosts") /\ HttpListPosts(sortBy, sortOrder, Undefined, tag)) =>
            LET l == resp'.body.array
                key == IF sortBy = Undefined THEN "createdAt" ELSE sortBy
                query == IF tag = Undefined THEN AllPosts ELSE ByTag(tag)
                matched == MatchPosts(posts, query)
            IN  /\ resp'.status = 200
                /\ Len(l) = Len(matched)
                /\ ArrayIds(resp') = {matched[k].id : k \in 1..Len(matched)}
                /\ sortOrder \in {Undefined, "descending"} => Ordered(l, key, -1)
                /\ sortOrder \notin {Undefined, "descending"} => Ordered(l, key, 1)]_vars

\* a listing has answered newest first while the store holds the posts oldest first
C27_Witness ==
    /\ resp.route = "listPosts"
    /\ resp.status = 200
    /\ Len(resp.body.array) = 2
    /\ resp.body.array[1].createdAt > resp.body.array[2].createdAt
    /\ Len(posts) = 2
    /\ posts[1].createdAt < posts[2].createdAt

(* ----------------------------- claims: startup ------------------------ *)
\* C28: the server starts listening only from the state in which loadConfig()
\* has run and initDatabase() has completed; a process whose initDatabase()
\* failed has crashed, stays crashed and never listens.
C28_StartupOrdering ==
    /\ [](boot = "listening" => env.DATABASE_URL # "")
    /\ [][boot' = "listening" => boot \in {"connected", "listening"}]_vars
    /\ [][boot' = "connected" => boot \in {"configured", "connected"}]_vars
    /\ [][boot = "configured" /\ env.DATABASE_URL = "" => boot' \in {"configured", "crashed"}]_vars
    /\ [][boot = "crashed" => boot' = "crashed"]_vars

\* the server listens and has answered a request
C28_Witness ==
    /\ boot = "listening"
    /\ resp # NoResponse

(* ------------------------ claims: incomplete update ------------------- *)
\* the request bodies of a PATCH that leave out title, author or contents
PartialBodies ==
    {b \in [title : Titles \cup {Undefined}, author : Usernames \cup {Undefined},
            contents : Contents \cup {Undefined}, tags : TagLists \cup {UndefinedTags}] :
        b.title = Undefined \/ b.author = Undefined \/ b.contents = Undefined}

\* C29: an authenticated PATCH /posts/:id without title, author or contents is
\* answered 400 and leaves the stored post as it was, updatedAt included.
C29_PartialUpdateRejected ==
    [][\A token \in ValidTokens, n \in 1..MaxPosts, b \in PartialBodies :
         (/\ findPostById(posts, n) # Null
          /\ Answered("updatePost")
          /\ HttpUpdatePost(token, HexId(n), b.title, b.author, b.contents, b.tags))
         => /\ resp'.status = 400
            /\ findPostById(posts', n) = findPostById(posts, n)]_vars

(* --------------------------- client session --------------------------- *)
TOKEN_KEY == "auth_token"
USER_KEY == "auth_user"

\* localStorage.setItem, getItem (null for a missing key) and removeItem
setItem(ls, key, value) == [ls EXCEPT ![key] = value]
getItem(ls, key) == ls[key]
removeItem(ls, key) == [ls EXCEPT ![key] = Null]

\* JSON.stringify of a user object and JSON.parse of the stored text
JSONstringify(user) == [json |-> user]
JSONparse(text) == text.json

\* if (value): a signed token is a non-empty string and a user an object
Truthy(value) == value # Null

setAuthToken(ls, token) == IF Truthy(token) THEN setItem(ls, TOKEN_KEY, token) ELSE ls
getAuthToken(ls) == getItem(ls, TOKEN_KEY)

\* setCurrentUser storing nothing
setCurrentUserSkipped(ls, user) == ls

setCurrentUser(ls, user) ==
    IF Truthy(user) THEN setItem(ls, USER_KEY, JSONstringify(user)) ELSE ls

getCurrentUser(ls) ==
    LET user == getItem(ls, USER_KEY)
    IN  IF Truthy(user) THEN JSONparse(user) ELSE Null

clearAuth(ls) == removeItem(removeItem(ls, TOKEN_KEY), USER_KEY)
isAuthenticated(ls) == Truthy(getAuthToken(ls))

\* response.ok
ResponseOk(response) == response.status \in 200..299

\* the error login() throws on a non-OK response
LoginError(response) ==
    [name |-> "Error",
     message |-> IF "error" \in DOMAIN response.body THEN response.body.error
                 ELSE "Login failed"]

\* login(username, password) of utils/auth.js against the server
ClientLogin(username, password) ==
    IF ~Listening
    THEN \* fetch rejects: no server answers
         /\ thrown' = [name |-> "TypeError", message |-> "Failed to fetch"]
         /\ UNCHANGED <<localStorage, env, boot, requireAuthMw, users, nextUserId,
                        signupQ, posts, nextPostId, saving, now, resp>>
    ELSE LET response == LoginResponse(loginUser(users, env, now, username, password))
         IN  /\ resp' = response
             /\ IF ~ResponseOk(response)
                THEN /\ thrown' = LoginError(response)
                     /\ UNCHANGED localStorage
                ELSE /\ localStorage' = setCurrentUser(
                            setAuthToken(localStorage, response.body.token),
                            response.body.user)
                     /\ thrown' = NoError
             /\ UNCHANGED <<env, boot, requireAuthMw, users, nextUserId, signupQ,
                            posts, nextPostId, saving, now>>

\* logout() of utils/auth.js
ClientLogout ==
    /\ localStorage' = clearAuth(localStorage)
    /\ thrown' = NoError
    /\ UNCHANGED <<env, boot, requireAuthMw, users, nextUserId, signupQ, posts,
                   nextPostId, saving, now, resp>>

\* logoutAction of the router
LogoutAction ==
    /\ localStorage' = removeItem(removeItem(localStorage, "auth_token"), "auth_user")
    /\ thrown' = NoError
    /\ UNCHANGED <<env, boot, requireAuthMw, users, nextUserId, signupQ, posts,
                   nextPostId, saving, now, resp>>

\* the browser client against the running server
NextClient ==
    \/ LoadConfig
    \/ InitDatabase
    \/ Listen
    \/ Tick
    \/ \E u \in Usernames : SignupCheck(u, "a@x.com", "P@ss1")
    \/ \E req \in BagToSet(signupQ), s \in Salts : SignupCreate(req, s)
    \/ \E u \in Usernames : DeleteUser(u)
    \/ \E u \in Usernames, p \in Passwords : ClientLogin(u, p)
    \/ ClientLogout
    \/ LogoutAction

SpecClient == Init /\ [][NextClient]_vars

\* C30: localStorage holds auth_token exactly when it holds auth_user; a
\* successful login stores the token and the user of the one response it got,
\* logout() and logoutAction remove both, a failed login throws and leaves the
\* stored token and user as they were, and isAuthenticated() is true exactly
\* when auth_token is stored.
C30_ClientSession ==
    /\ [](getItem(localStorage, TOKEN_KEY) # Null <=> getItem(localStorage, USER_KEY) # Null)
    /\ [](isAuthenticated(localStorage) <=> getItem(localStorage, TOKEN_KEY) # Null)
    /\ [][\A u \in Usernames, p \in Passwords :
            ClientLogin(u, p) =>
              IF Listening /\ ResponseOk(resp')
              THEN /\ getAuthToken(localStorage') = resp'.body.token
                   /\ getCurrentUser(localStorage') = resp'.body.user
                   /\ thrown' = NoError
              ELSE /\ thrown'.name \in {"Error", "TypeError"}
                   /\ localStorage' = localStorage]_vars
    /\ [][ClientLogout \/ LogoutAction =>
            /\ getItem(localStorage', TOKEN_KEY) = Null
            /\ getItem(localStorage', USER_KEY) = Null]_vars

\* a login failed while a token and a user were stored, and they stayed
C30_Witness ==
    /\ isAuthenticated(localStorage)
    /\ getCurrentUser(localStorage) # Null
    /\ thrown.name = "Error"
    /\ resp.route = "login"
    /\ resp.status = 401

====
